---- MODULE Spec2Model ----
(***************************************************************************)
(* Model of the AURA scoring engine: lead scoring (analytics.py), the      *)
(* follow-up scheduler and buyer matching (automation.py), the deal        *)
(* probability model (analytics.py) and the SQLite record store they read  *)
(* and write (database.py).                                                *)
(*                                                                         *)
(* Time is counted in ticks, TicksPerDay ticks to a day, so that two       *)
(* timestamps can differ by less than a day or by exactly a whole number   *)
(* of days.  Scores that the code keeps with one decimal are kept in       *)
(* tenths; the unrounded weighted sum is kept in hundredths.               *)
(***************************************************************************)
EXTENDS Integers, Sequences, FiniteSets, TLC

VARIABLES
    now,                \* datetime.now(), in ticks
    Contacts,           \* table Contacts: sequence of rows, id = index
    Properties,         \* table Properties: sequence of rows, id = index
    ContactProperties,  \* table ContactProperties: set of rows
    Tasks,              \* table Tasks: sequence of rows, id = index
    Deals,              \* table Deals: sequence of rows, id = index
    LeadScores,         \* table LeadScores: sequence of rows, id = index
    ret                 \* the last call: operation, argument, value, log

vars == <<now, Contacts, Properties, ContactProperties, Tasks, Deals, LeadScores, ret>>

(***************************************************************************)
(* Bounds of the model.                                                    *)
(***************************************************************************)
TicksPerDay == 2
MaxDays == 8
MaxContacts == 2
MaxTasks == 2
MaxScoreRows == 4
MaxDeals == 1

Days(n) == n * TicksPerDay
MaxNow == Days(MaxDays)

(***************************************************************************)
(* Stored values.  A TEXT column holds NULL or a string.  A date column is *)
(* modelled by what the code can tell about the string: NULL, a string     *)
(* that is no ISO date (sorting before or after every ISO date), or an ISO *)
(* timestamp with an optional zone designator: "" (none), "Z", "+" (an     *)
(* offset +hh:mm) or "-" (an offset -hh:mm).                               *)
(***************************************************************************)
NULL == "<null>"

NullDate == [kind |-> "null", t |-> 0, tz |-> ""]
TextDate(hi) == [kind |-> "text", t |-> (IF hi THEN 1 ELSE 0), tz |-> ""]
IsoDate(t, tz) == [kind |-> "iso", t |-> t, tz |-> tz]

\* Python truthiness of a fetched date column: None is falsy, the strings
\* of the model are all non-empty.
DateTruthy(d) == d.kind # "null"

\* notes: NULL or a string, modelled by the set of phrases it is made of
\* (the empty set is the empty string).
NullNotes == [isnull |-> TRUE, phrases |-> {}]
NotesOf(ps) == [isnull |-> FALSE, phrases |-> ps]
NotesTruthy(n) == ~n.isnull /\ n.phrases # {}

\* lower() of a phrase.
Lower(p) ==
    CASE p = "URGENT" -> "urgent"
      [] p = "Villa" -> "villa"
      [] p = "Apartment" -> "apartment"
      [] p = "Palm Jumeirah" -> "palm jumeirah"
      [] OTHER -> p

\* The keywords that occur as substrings of a lower-case phrase.
SubstringsOf(p) ==
    CASE p = "not interested" -> {"not interested", "interested"}
      [] p = "delayed" -> {"delay"}
      [] p = "viewing asap" -> {"viewing", "asap"}
      [] OTHER -> {p}

\* keyword in notes.lower()  (the empty keyword occurs in every string)
KeywordIn(k, phrases) ==
    k = "" \/ \E p \in phrases : k \in SubstringsOf(Lower(p))

(***************************************************************************)
(* datetime.fromisoformat(s.replace('Z', '+00:00').split('+')[0]) and the  *)
(* subtraction from datetime.now().                                        *)
(***************************************************************************)
\* s.replace('Z', '+00:00'): raises AttributeError on None.
ReplaceZ(d) ==
    IF d.kind = "null" THEN [exc |-> "AttributeError", d |-> d]
    ELSE IF d.kind = "iso" /\ d.tz = "Z" THEN [exc |-> "none", d |-> IsoDate(d.t, "+")]
    ELSE [exc |-> "none", d |-> d]

\* .split('+')[0]: drops a +hh:mm offset, leaves a -hh:mm offset in place.
SplitPlus(d) ==
    IF d.kind = "iso" /\ d.tz = "+" THEN IsoDate(d.t, "") ELSE d

\* datetime.fromisoformat: ValueError on a non-ISO string; an offset left
\* in the string gives an offset-aware datetime.
FromIsoformat(d) ==
    IF d.kind # "iso" THEN [exc |-> "ValueError", t |-> 0, aware |-> FALSE]
    ELSE [exc |-> "none", t |-> d.t, aware |-> (d.tz # "")]

ParseDate(d) ==
    LET r == ReplaceZ(d) IN
    IF r.exc # "none" THEN [exc |-> r.exc, t |-> 0, aware |-> FALSE]
    ELSE FromIsoformat(SplitPlus(r.d))

\* (datetime.now() - parsed).days: TypeError when parsed is offset-aware
\* (now() is naive); .days is the floor of the difference in days.
DaysSince(nowt, d) ==
    LET p == ParseDate(d) IN
    IF p.exc # "none" THEN [exc |-> p.exc, days |-> 0]
    ELSE IF p.aware THEN [exc |-> "TypeError", days |-> 0]
    ELSE [exc |-> "none", days |-> (nowt - p.t) \div TicksPerDay]

(***************************************************************************)
(* SQLite comparison of stored dates as strings (memcmp): NULL sorts       *)
(* first, ISO timestamps sort by time and then by the zone designator      *)
(* ("" < "+.." < "-.." < "Z").                                             *)
(***************************************************************************)
TzRank(tz) == CASE tz = "" -> 0 [] tz = "+" -> 1 [] tz = "-" -> 2 [] OTHER -> 3

KindRank(d) ==
    CASE d.kind = "null" -> 0
      [] d.kind = "text" /\ d.t = 0 -> 1
      [] d.kind = "iso" -> 2
      [] OTHER -> 3

\* a sorts strictly before b
DateStrLess(a, b) ==
    \/ KindRank(a) < KindRank(b)
    \/ /\ a.kind = "iso" /\ b.kind = "iso"
       /\ (a.t < b.t \/ (a.t = b.t /\ TzRank(a.tz) < TzRank(b.tz)))

\* column < ?  with an ISO timestamp without zone as the parameter;
\* a comparison with NULL is not true.
SqlDateLess(d, cutoff) ==
    d.kind # "null" /\ DateStrLess(d, IsoDate(cutoff, ""))

(***************************************************************************)
(* analytics.py: lead scoring.                                             *)
(***************************************************************************)
\* status_scores.get(contact[4], 10)
StatusScore(status) ==
    CASE status = "Hot" -> 100
      [] status = "Warm" -> 60
      [] status = "Cold" -> 20
      [] OTHER -> 10

\* source_scores.get(contact[5], 40)
SourceScore(source) ==
    CASE source = "Referral" -> 90
      [] source = "Previous Client" -> 85
      [] source = "Social Media" -> 70
      [] source = "Website" -> 60
      [] source = "Walk-in" -> 50
      [] source = "Cold Call" -> 30
      [] OTHER -> 40

\* RecencyOfDays with the second band ending before the third day.
RecencyOfDays_mut(days_since) ==
    IF days_since <= 1 THEN 100
    ELSE IF days_since < 3 THEN 80
    ELSE IF days_since <= 7 THEN 60
    ELSE IF days_since <= 30 THEN 40
    ELSE IF days_since <= 90 THEN 20
    ELSE 10

RecencyOfDays(days_since) ==
    IF days_since <= 1 THEN 100
    ELSE IF days_since <= 3 THEN 80
    ELSE IF days_since <= 7 THEN 60
    ELSE IF days_since <= 30 THEN 40
    ELSE IF days_since <= 90 THEN 20
    ELSE 10

\* Returns [exc, val]: ValueError and AttributeError are caught (30), any
\* other exception leaves the function.
_calculate_recency_score(nowt, last_contacted_date, created_date) ==
    LET ref == IF DateTruthy(last_contacted_date) THEN last_contacted_date
               ELSE created_date
    IN  IF ~DateTruthy(ref) THEN [exc |-> "none", val |-> 30]
        ELSE LET d == DaysSince(nowt, ref) IN
             IF d.exc \in {"ValueError", "AttributeError"} THEN [exc |-> "none", val |-> 30]
             ELSE IF d.exc # "none" THEN [exc |-> d.exc, val |-> 0]
             ELSE [exc |-> "none", val |-> RecencyOfDays(d.days)]

Min(a, b) == IF a <= b THEN a ELSE b
Max(a, b) == IF a >= b THEN a ELSE b

\* SELECT COUNT(*) FROM ContactProperties WHERE contact_id = ? AND
\* relationship_type IN ('Interested', 'Viewing Scheduled')
CountInterests(cp, contact_id) ==
    Cardinality({r \in cp : r.contact_id = contact_id
                             /\ r.relationship_type \in {"Interested", "Viewing Scheduled"}})

\* CountTasks that also counts the score records stored for the contact.
CountTasks_mut(tasks, contact_id) ==
    Cardinality({i \in DOMAIN tasks : tasks[i].contact_id = contact_id})
    + Cardinality({i \in DOMAIN LeadScores : LeadScores[i].contact_id = contact_id})

\* SELECT COUNT(*) FROM Tasks WHERE contact_id = ?
CountTasks(tasks, contact_id) ==
    Cardinality({i \in DOMAIN tasks : tasks[i].contact_id = contact_id})

\* readFails: one of the two counting queries raises; the except branch
\* returns 30.
_calculate_engagement_score(contact_id, cp, tasks, readFails) ==
    IF readFails THEN 30
    ELSE Min(CountInterests(cp, contact_id) * 30 + CountTasks(tasks, contact_id) * 20, 100)

high_intent_keywords == {"urgent", "asap", "ready to buy", "cash buyer", "pre-approved", "mortgage approved"}
medium_intent_keywords == {"interested", "looking for", "budget", "timeline", "viewing"}
negative_keywords == {"not interested", "postpone", "delay", "maybe later"}

Hits(keywords, phrases) == Cardinality({k \in keywords : KeywordIn(k, phrases)})

_calculate_intent_score(notes) ==
    IF ~NotesTruthy(notes) THEN 30
    ELSE LET score == 50 + 20 * Hits(high_intent_keywords, notes.phrases)
                         + 10 * Hits(medium_intent_keywords, notes.phrases)
                         - 15 * Hits(negative_keywords, notes.phrases)
         IN Max(Min(score, 100), 0)

\* total_score is the unrounded sum, here in hundredths of a point.
_generate_lead_recommendation(total_score, breakdown) ==
    <<IF total_score >= 8000 THEN "HIGH PRIORITY: Contact immediately"
      ELSE IF total_score >= 6000 THEN "MEDIUM PRIORITY: Follow up within 24 hours"
      ELSE "LOW PRIORITY: Include in weekly follow-up cycle">>
    \o (IF breakdown.recency < 40 THEN <<"Re-engagement needed - contact has gone cold">> ELSE <<>>)
    \o (IF breakdown.engagement < 30 THEN <<"Increase engagement - send property suggestions">> ELSE <<>>)
    \o (IF breakdown.intent > 70 THEN <<"High intent detected - prepare property options">> ELSE <<>>)

\* _get_priority_level with the High tier starting at 95.
_get_priority_level_mut(score) ==
    IF score >= 950 THEN "High"
    ELSE IF score >= 600 THEN "Medium"
    ELSE IF score >= 400 THEN "Low"
    ELSE "Very Low"

\* score in tenths of a point.
_get_priority_level(score) ==
    IF score >= 800 THEN "High"
    ELSE IF score >= 600 THEN "Medium"
    ELSE IF score >= 400 THEN "Low"
    ELSE "Very Low"

\* Round1 that rounds to the nearest whole point.
Round1_mut(hundredths) == ((hundredths + 50) \div 100) * 10

\* round(x, 1) of a value given in hundredths, result in tenths.  The sums
\* the code forms are exact in binary floating point at the ties (x.x5 is
\* x.25 or x.75), where round() rounds half to even.
Round1(hundredths) ==
    LET q == hundredths \div 10
        r == hundredths % 10
    IN  IF r < 5 THEN q
        ELSE IF r > 5 THEN q + 1
        ELSE IF q % 2 = 0 THEN q ELSE q + 1

\* WeightedTotal with the intent weight 0.15 instead of 0.1.
WeightedTotal_mut(b) ==
    40 * b.lead_status + 15 * b.source + 20 * b.recency + 15 * b.engagement + 15 * b.intent

\* status_score * 0.4 + source_score * 0.15 + recency_score * 0.2 +
\* engagement_score * 0.15 + intent_score * 0.1, in hundredths.
WeightedTotal(b) ==
    40 * b.lead_status + 15 * b.source + 20 * b.recency + 15 * b.engagement + 10 * b.intent

\* contact is a row of Contacts with its id.  Returns [exc, total_score,
\* breakdown, recommendation]; total_score in tenths.
_calculate_lead_score(nowt, contact, cp, tasks, readFails) ==
    LET rec == _calculate_recency_score(nowt, contact.last_contacted_date, contact.created_date)
        breakdown == [lead_status |-> StatusScore(contact.lead_status),
                      source      |-> SourceScore(contact.source),
                      recency     |-> rec.val,
                      engagement  |-> _calculate_engagement_score(contact.id, cp, tasks, readFails),
                      intent      |-> _calculate_intent_score(contact.notes)]
        total == WeightedTotal(breakdown)
    IN  IF rec.exc # "none"
        THEN [exc |-> rec.exc, total_score |-> 0, breakdown |-> breakdown, recommendation |-> <<>>]
        ELSE [exc |-> "none",
              total_score |-> Round1(total),
              breakdown |-> breakdown,
              recommendation |-> _generate_lead_recommendation(total, breakdown)]

(***************************************************************************)
(* list.sort and ORDER BY: a stable sort.  Before(a, b) holds when a must  *)
(* come strictly before b; elements that compare equal keep their order.   *)
(***************************************************************************)
StableSort(s, Before(_, _)) ==
    LET Insert(sorted, x) ==
            LET k == Cardinality({i \in DOMAIN sorted : ~Before(x, sorted[i])})
            IN  SubSeq(sorted, 1, k) \o <<x>> \o SubSeq(sorted, k + 1, Len(sorted))
        F[n \in 0..Len(s)] == IF n = 0 THEN <<>> ELSE Insert(F[n - 1], s[n])
    IN  F[Len(s)]

\* The rows of a table with their ids (id = index).
WithIds(tbl) == [i \in DOMAIN tbl |-> [id |-> i] @@ tbl[i]]

(***************************************************************************)
(* automation.py: follow-up scheduler.                                     *)
(***************************************************************************)
follow_up_intervals == <<[status |-> "Hot", interval |-> 1],
                         [status |-> "Warm", interval |-> 3],
                         [status |-> "Cold", interval |-> 7]>>

\* _calculate_follow_up_priority with the bonus capped at 40.
_calculate_follow_up_priority_mut(status, days_overdue) ==
    LET base_priority == CASE status = "Hot" -> 100
                           [] status = "Warm" -> 60
                           [] status = "Cold" -> 20
                           [] OTHER -> 10
    IN  base_priority + Min(days_overdue * 10, 40)

_calculate_follow_up_priority(status, days_overdue) ==
    LET base_priority == CASE status = "Hot" -> 100
                           [] status = "Warm" -> 60
                           [] status = "Cold" -> 20
                           [] OTHER -> 10
        urgency_bonus == Min(days_overdue * 10, 50)
    IN  base_priority + urgency_bonus

\* CASE WHEN last_contacted_date IS NULL THEN created_date
\*      ELSE last_contacted_date END
FollowUpOrderKey(c) ==
    IF c.last_contacted_date.kind = "null" THEN c.created_date
    ELSE c.last_contacted_date

\* FollowUpQuery without the test lead_status = ?.
FollowUpQuery_mut(nowt, contacts, status, interval) ==
    LET cutoff == nowt - interval * TicksPerDay
        hit(c) == c.last_contacted_date.kind = "null"
                  \/ SqlDateLess(c.last_contacted_date, cutoff)
    IN  SelectSeq(WithIds(contacts), hit)

\* The SELECT of one pass of the loop over follow_up_intervals; the cutoff
\* is (current_date - timedelta(days=interval)).isoformat().
FollowUpQuery(nowt, contacts, status, interval) ==
    LET cutoff == nowt - interval * TicksPerDay
        hit(c) == /\ c.lead_status = status
                  /\ (c.last_contacted_date.kind = "null"
                      \/ SqlDateLess(c.last_contacted_date, cutoff))
        before(a, b) == DateStrLess(FollowUpOrderKey(a), FollowUpOrderKey(b))
    IN  StableSort(SelectSeq(WithIds(contacts), hit), before)

\* The body of the inner loop for one fetched row: [exc, due, entry].
FollowUpEntry(nowt, contact, status, interval) ==
    LET last_contact_str == IF DateTruthy(contact.last_contacted_date)
                            THEN contact.last_contacted_date
                            ELSE contact.created_date
        d == DaysSince(nowt, last_contact_str)
        exc == IF DateTruthy(last_contact_str)
                  /\ d.exc \notin {"none", "ValueError", "AttributeError"}
               THEN d.exc ELSE "none"
        days_overdue == IF DateTruthy(last_contact_str) /\ d.exc = "none"
                        THEN d.days ELSE interval + 1
    IN  [exc |-> exc,
         due |-> days_overdue >= interval,
         entry |-> [contact_id |-> contact.id,
                    status |-> contact.lead_status,
                    last_contacted_date |-> contact.last_contacted_date,
                    days_overdue |-> days_overdue,
                    priority |-> _calculate_follow_up_priority(status, days_overdue)]]

\* FollowUpBefore with the key -x['priority'] alone.
FollowUpBefore_mut(a, b) == a.priority > b.priority

\* key=lambda x: (-x['priority'], -x['days_overdue'])
FollowUpBefore(a, b) ==
    \/ a.priority > b.priority
    \/ a.priority = b.priority /\ a.days_overdue > b.days_overdue

\* Returns [exc, val, closed]: exc is the exception the outer handler caught
\* ("none" if none), val the returned list, closed whether the return path
\* passed conn.close().
get_follow_up_tasks(nowt, contacts) ==
    LET pass(k) ==
            LET status == follow_up_intervals[k].status
                interval == follow_up_intervals[k].interval
                rows == FollowUpQuery(nowt, contacts, status, interval)
            IN  [i \in DOMAIN rows |-> FollowUpEntry(nowt, rows[i], status, interval)]
        all == pass(1) \o pass(2) \o pass(3)
        raised == {i \in DOMAIN all : all[i].exc # "none"}
        isdue(e) == e.due
        follow_ups == LET due == SelectSeq(all, isdue)
                      IN  [i \in DOMAIN due |-> due[i].entry]
    IN  IF raised # {}
        THEN [exc |-> all[CHOOSE i \in raised : \A j \in raised : i <= j].exc, val |-> <<>>,
              closed |-> FALSE]
        ELSE [exc |-> "none", val |-> StableSort(follow_ups, FollowUpBefore), closed |-> TRUE]

(***************************************************************************)
(* automation.py: buyer matching.                                          *)
(***************************************************************************)
\* property_data[0].lower() if property_data[0] else ''
LowerOrEmpty(str) == IF str = NULL THEN "" ELSE Lower(str)

_calculate_buyer_match_score(contact, property_data) ==
    LET base_score == CASE contact.lead_status = "Hot" -> 100
                        [] contact.lead_status = "Warm" -> 70
                        [] contact.lead_status = "Cold" -> 30
                        [] OTHER -> 10
        notes == contact.notes.phrases
        property_type == LowerOrEmpty(property_data.property_type)
        area == LowerOrEmpty(property_data.area)
    IN  base_score
        + (IF KeywordIn(property_type, notes) THEN 20 ELSE 0)
        + (IF KeywordIn(area, notes) THEN 15 ELSE 0)
        + (IF KeywordIn("urgent", notes) \/ KeywordIn("asap", notes) THEN 10 ELSE 0)

\* SELECT cp.contact_id FROM ContactProperties cp
\* WHERE cp.relationship_type = 'Owner'
OwnerIds(cp, property_id) ==
    {r.contact_id : r \in {x \in cp : x.relationship_type = "Owner"}}

\* BuyerStatusFilter without the restriction to Hot and Warm.
BuyerStatusFilter_mut(c) == TRUE

\* The candidate query: WHERE c.lead_status IN ('Hot', 'Warm') AND c.id NOT
\* IN (owners), ORDER BY the status rank, then c.name (names are taken to
\* grow with the id).
BuyerStatusFilter(c) == c.lead_status \in {"Hot", "Warm"}

BuyerQuery(contacts, cp, property_id) ==
    LET hit(c) == BuyerStatusFilter(c) /\ c.id \notin OwnerIds(cp, property_id)
        rank(c) == CASE c.lead_status = "Hot" -> 1
                     [] c.lead_status = "Warm" -> 2
                     [] OTHER -> 3
        before(a, b) == rank(a) < rank(b)
    IN  StableSort(SelectSeq(WithIds(contacts), hit), before)

\* potential_buyers.sort(key=lambda x: x['match_score'], reverse=True)
BuyerBefore(a, b) == a.match_score > b.match_score

\* Returns [exc, val].
find_matching_buyers(contacts, properties, cp, property_id) ==
    IF property_id \notin DOMAIN properties
    THEN [exc |-> "none", val |-> <<>>, closed |-> FALSE]
    ELSE LET property_data == properties[property_id]
             rows == BuyerQuery(contacts, cp, property_id)
             potential_buyers ==
                 [i \in DOMAIN rows |->
                     [contact_id |-> rows[i].id,
                      status |-> rows[i].lead_status,
                      match_score |-> _calculate_buyer_match_score(rows[i], property_data)]]
         IN  [exc |-> "none", val |-> StableSort(potential_buyers, BuyerBefore),
              closed |-> TRUE]

(***************************************************************************)
(* analytics.py: deal-closing probability.                                 *)
(***************************************************************************)
\* lead_status_impact.get(deal_data[4], 0)
LeadStatusImpact(status) ==
    CASE status = "Hot" -> 30
      [] status = "Warm" -> 15
      [] status = "Cold" -> -20
      [] OTHER -> 0

\* source_impact.get(deal_data[5], 0)
SourceImpact(source) ==
    CASE source = "Referral" -> 20
      [] source = "Previous Client" -> 25
      [] source = "Website" -> 10
      [] source = "Walk-in" -> 5
      [] source = "Cold Call" -> -10
      [] OTHER -> 0

AgeImpact(days_old) ==
    IF days_old <= 7 THEN 10
    ELSE IF days_old <= 30 THEN 0
    ELSE IF days_old <= 60 THEN -10
    ELSE -20

ContactImpact(days_since_contact) ==
    IF days_since_contact <= 3 THEN 15
    ELSE IF days_since_contact <= 7 THEN 5
    ELSE IF days_since_contact <= 14 THEN -5
    ELSE -15

\* ClampProbability without the upper limit.
ClampProbability_mut(total_probability) == Max(0, total_probability)

\* max(0, min(100, total_probability))
ClampProbability(total_probability) == Max(0, Min(100, total_probability))

_get_confidence_level(probability) ==
    IF probability >= 80 THEN "Very High"
    ELSE IF probability >= 60 THEN "High"
    ELSE IF probability >= 40 THEN "Moderate"
    ELSE IF probability >= 20 THEN "Low"
    ELSE "Very Low"

_generate_deal_recommendations(probability, factors) ==
    LET recs ==
            (IF probability < 40 THEN <<"Deal at risk - immediate action required">>
             ELSE IF probability < 60 THEN <<"Moderate risk - increase engagement efforts">>
             ELSE <<>>)
            \o (IF factors.recent_contact < 0
                THEN <<"Contact the client immediately - communication gap detected">> ELSE <<>>)
            \o (IF factors.deal_age < -10
                THEN <<"Deal aging - create urgency or address concerns">> ELSE <<>>)
            \o (IF factors.lead_status < 0
                THEN <<"Lead status needs improvement - provide more value">> ELSE <<>>)
    IN  IF recs = <<>> THEN <<"Deal progressing well - maintain current momentum">> ELSE recs

\* Deals d JOIN Contacts c ON d.contact_id = c.id
\*         JOIN Properties p ON d.property_id = p.id WHERE d.id = ?
DealJoin(deals, contacts, properties, deal_id) ==
    IF /\ deal_id \in DOMAIN deals
       /\ deals[deal_id].contact_id \in DOMAIN contacts
       /\ deals[deal_id].property_id \in DOMAIN properties
    THEN <<[created_date |-> deals[deal_id].created_date,
            lead_status |-> contacts[deals[deal_id].contact_id].lead_status,
            source |-> contacts[deals[deal_id].contact_id].source,
            last_contacted_date |-> contacts[deals[deal_id].contact_id].last_contacted_date]>>
    ELSE <<>>

\* Factor 3: [added, reported, exc]: what is added to total_probability and
\* what is stored in probability_factors['deal_age'].
DealAgeFactor(nowt, created_date) ==
    LET d == DaysSince(nowt, created_date) IN
    IF d.exc = "none" THEN [exc |-> "none", added |-> AgeImpact(d.days), reported |-> AgeImpact(d.days)]
    ELSE IF d.exc \in {"ValueError", "AttributeError"} THEN [exc |-> "none", added |-> 0, reported |-> 0]
    ELSE [exc |-> d.exc, added |-> 0, reported |-> 0]

\* Factor 4: in the two branches without a usable date the code stores -10
\* in probability_factors and leaves total_probability alone.
RecentContactFactor(nowt, last_contacted_date) ==
    IF ~DateTruthy(last_contacted_date) THEN [exc |-> "none", added |-> 0, reported |-> -10]
    ELSE LET d == DaysSince(nowt, last_contacted_date) IN
         IF d.exc = "none"
         THEN [exc |-> "none", added |-> ContactImpact(d.days), reported |-> ContactImpact(d.days)]
         ELSE IF d.exc \in {"ValueError", "AttributeError"}
         THEN [exc |-> "none", added |-> 0, reported |-> -10]
         ELSE [exc |-> d.exc, added |-> 0, reported |-> 0]

NoPrediction(exc, error) ==
    [exc |-> exc, error |-> error, probability |-> 0,
     probability_factors |-> [lead_status |-> 0, lead_source |-> 0, deal_age |-> 0, recent_contact |-> 0],
     confidence_level |-> "", recommendations |-> <<>>, closed |-> FALSE]

\* Returns [exc, error, probability, probability_factors, confidence_level,
\* recommendations, closed]; error is "" for a prediction; closed: the
\* return path passed conn.close().
predict_deal_probability(nowt, deals, contacts, properties, deal_id) ==
    LET rows == DealJoin(deals, contacts, properties, deal_id) IN
    IF rows = <<>> THEN NoPrediction("none", "Deal not found")
    ELSE LET deal_data == rows[1]
             lead_impact == LeadStatusImpact(deal_data.lead_status)
             source_effect == SourceImpact(deal_data.source)
             age == DealAgeFactor(nowt, deal_data.created_date)
             recent == RecentContactFactor(nowt, deal_data.last_contacted_date)
             factors == [lead_status |-> lead_impact, lead_source |-> source_effect,
                         deal_age |-> age.reported, recent_contact |-> recent.reported]
             total_probability ==
                 ClampProbability(50 + lead_impact + source_effect + age.added + recent.added)
         IN  IF age.exc # "none" THEN NoPrediction(age.exc, "Failed to predict deal probability")
             ELSE IF recent.exc # "none" THEN NoPrediction(recent.exc, "Failed to predict deal probability")
             ELSE [exc |-> "none", error |-> "",
                   probability |-> total_probability,
                   probability_factors |-> factors,
                   confidence_level |-> _get_confidence_level(total_probability),
                   recommendations |-> _generate_deal_recommendations(total_probability, factors),
                   closed |-> TRUE]

(***************************************************************************)
(* The record store as seen through one sqlite3 connection: the committed  *)
(* table and the connection's working copy with its uncommitted rows.      *)
(***************************************************************************)
SqlConnect(tbl) == [committed |-> tbl, work |-> tbl]

\* The LeadScores schema declares one key, the AUTOINCREMENT id, and the
\* INSERT gives no id: no stored row ever conflicts with the new one.
LeadScoresConflict(old, new) == FALSE

\* INSERT OR REPLACE: delete the rows that conflict on a key, then insert.
SqlInsertOrReplace(conn, row) ==
    LET keep(r) == ~LeadScoresConflict(r, row)
    IN  [conn EXCEPT !.work = Append(SelectSeq(conn.work, keep), row)]

SqlCommit(conn) == [conn EXCEPT !.committed = conn.work]

\* SqlClose of a connection in autocommit mode: the rows written so far stay.
SqlClose_mut(conn) == conn.work

\* conn.close() without a commit drops the uncommitted rows.
SqlClose(conn) == conn.committed

\* A store fault: the statement at which the store raises.
\*   at = "contacts"   the SELECT of the contacts
\*   at = "engagement" a counting query for the k-th fetched contact
\*   at = "insert"     the k-th INSERT OR REPLACE
\*   at = "commit"     conn.commit()
NoFault == [at |-> "none", k |-> 0]
Faults(n) ==
    {NoFault, [at |-> "contacts", k |-> 0], [at |-> "commit", k |-> 0]}
    \cup {[at |-> a, k |-> k] : a \in {"engagement", "insert"}, k \in 1..n}

\* Returns [conn, logged]: the connection after the loop and whether the
\* except branch logged "Error updating lead scores in database".
_update_lead_scores_in_db(scored_leads, conn, nowt, fault) ==
    LET n == IF fault.at = "insert" THEN fault.k - 1 ELSE Len(scored_leads)
        row(i) == [contact_id |-> scored_leads[i].contact_id,
                   score |-> scored_leads[i].score,
                   score_factors |-> scored_leads[i].score_breakdown,
                   last_calculated |-> nowt]
        W[i \in 0..n] == IF i = 0 THEN conn ELSE SqlInsertOrReplace(W[i - 1], row(i))
    IN  IF fault.at \in {"insert", "commit"}
        THEN [conn |-> W[n], logged |-> TRUE]
        ELSE [conn |-> SqlCommit(W[n]), logged |-> FALSE]

\* ORDER BY c.created_date DESC
ScoreQuery(contacts) ==
    LET before(a, b) == DateStrLess(b.created_date, a.created_date)
    IN  StableSort(WithIds(contacts), before)

\* scored_leads.sort(key=lambda x: x['score'], reverse=True)
ScoreBefore(a, b) == a.score > b.score

\* Returns [exc, val, log, LeadScores, rolled_back, closed]: the exception
\* the outer handler caught, the returned list, the logged errors, the table
\* LeadScores after the call, the number of uncommitted rows dropped and
\* whether the return path passed conn.close().
score_leads(nowt, contacts, cp, tasks, leadscores, fault) ==
    LET conn == SqlConnect(leadscores)
        rows == ScoreQuery(contacts)
        score_data == [i \in DOMAIN rows |->
                          _calculate_lead_score(nowt, rows[i], cp, tasks,
                                                fault.at = "engagement" /\ fault.k = i)]
        raised == {i \in DOMAIN rows : score_data[i].exc # "none"}
        scored_leads == [i \in DOMAIN rows |->
                            [contact_id |-> rows[i].id,
                             lead_status |-> rows[i].lead_status,
                             source |-> rows[i].source,
                             score |-> score_data[i].total_score,
                             score_breakdown |-> score_data[i].breakdown,
                             priority_level |-> _get_priority_level(score_data[i].total_score),
                             recommendation |-> score_data[i].recommendation]]
        upd == _update_lead_scores_in_db(scored_leads, conn, nowt, fault)
    IN  IF fault.at = "contacts"
        THEN [exc |-> "OperationalError", val |-> <<>>, log |-> <<"Error scoring leads">>,
              LeadScores |-> leadscores, rolled_back |-> 0, closed |-> FALSE]
        ELSE IF raised # {}
        THEN [exc |-> score_data[CHOOSE i \in raised : \A j \in raised : i <= j].exc,
              val |-> <<>>, log |-> <<"Error scoring leads">>,
              LeadScores |-> leadscores, rolled_back |-> 0, closed |-> FALSE]
        ELSE [exc |-> "none",
              val |-> StableSort(scored_leads, ScoreBefore),
              log |-> IF upd.logged THEN <<"Error updating lead scores in database">> ELSE <<>>,
              LeadScores |-> SqlClose(upd.conn),
              rolled_back |-> Len(upd.conn.work) - Len(upd.conn.committed),
              closed |-> TRUE]

(***************************************************************************)
(* The state machine.  ret holds the last call and is dropped by the next  *)
(* step of any other kind.                                                 *)
(***************************************************************************)
\* fault is the store fault the call met ("none" but in a scoring run),
\* conn the connection the call opened, as it is when the call returns
\* ("none" if the call opens none).
Call(op, arg, exc, val, log, rolled_back) ==
    [op |-> op, arg |-> arg, exc |-> exc, val |-> val, log |-> log, rolled_back |-> rolled_back,
     fault |-> "none", conn |-> "none"]

\* The connection when its function returns.  A return path that does not
\* pass conn.close() drops the connection object: the runtime closes it
\* when it reclaims the object, which is at the return, later or never.
ConnAfter(closed) == IF closed THEN {"closed"} ELSE {"closed", "open"}

NoCall == Call("none", 0, "none", <<>>, <<>>, 0)

\* A row written to Contacts (database.py: the row is stored as given, no
\* column is checked).
AddContact(rows) ==
    /\ Len(Contacts) < MaxContacts
    /\ \E c \in rows : Contacts' = Append(Contacts, c)
    /\ ret' = NoCall
    /\ UNCHANGED <<now, Properties, ContactProperties, Tasks, Deals, LeadScores>>

\* Time passes between two calls.
AdvanceClock(steps) ==
    /\ \E d \in steps : now + d <= MaxNow /\ now' = now + d
    /\ ret' = NoCall
    /\ UNCHANGED <<Contacts, Properties, ContactProperties, Tasks, Deals, LeadScores>>

\* A scoring run, taken while LeadScores stays within max_rows rows.
ScoreLeadsWithin(max_rows) ==
    /\ Len(LeadScores) + Len(Contacts) <= max_rows
    /\ \E fault \in Faults(Len(Contacts)) :
         \E r \in {score_leads(now, Contacts, ContactProperties, Tasks, LeadScores, fault)} :
             /\ LeadScores' = r.LeadScores
             /\ \E conn \in ConnAfter(r.closed) :
                    ret' = [Call("score_leads", 0, r.exc, r.val, r.log, r.rolled_back)
                               EXCEPT !.fault = fault.at, !.conn = conn]
    /\ UNCHANGED <<now, Contacts, Properties, ContactProperties, Tasks, Deals>>

ScoreLeads == ScoreLeadsWithin(MaxScoreRows)

\* GetFollowUpTasks that stamps the contacts it returns as contacted now.
GetFollowUpTasks_mut ==
    /\ \E r \in {get_follow_up_tasks(now, Contacts)} :
           /\ \E conn \in ConnAfter(r.closed) :
                  ret' = [Call("get_follow_up_tasks", 0, r.exc, r.val, <<>>, 0)
                             EXCEPT !.conn = conn]
           /\ Contacts' = [id \in DOMAIN Contacts |->
                              IF \E i \in DOMAIN r.val : r.val[i].contact_id = id
                              THEN [Contacts[id] EXCEPT !.last_contacted_date = IsoDate(now, "")]
                              ELSE Contacts[id]]
    /\ UNCHANGED <<now, Properties, ContactProperties, Tasks, Deals, LeadScores>>

GetFollowUpTasks ==
    /\ \E r \in {get_follow_up_tasks(now, Contacts)} :
           \E conn \in ConnAfter(r.closed) :
               ret' = [Call("get_follow_up_tasks", 0, r.exc, r.val,
                            IF r.exc = "none" THEN <<>> ELSE <<"Error getting follow-up tasks">>, 0)
                          EXCEPT !.conn = conn]
    /\ UNCHANGED <<now, Contacts, Properties, ContactProperties, Tasks, Deals, LeadScores>>

\* The rows of the scoring-run specification: with and without dates, and
\* a date with a negative UTC offset.
StoreContacts ==
    {c \in [lead_status : {"Hot", "Cold"},
            source : {"Referral"},
            notes : {NullNotes},
            last_contacted_date : {NullDate, IsoDate(0, "-")},
            created_date : {NullDate, IsoDate(0, "")}] :
        /\ c.lead_status = "Cold" => c.last_contacted_date = NullDate /\ c.created_date # NullDate
        /\ c.last_contacted_date # NullDate => c.created_date # NullDate}

StoreSteps == {MaxNow}

Init ==
    /\ now = 0
    /\ Contacts = <<>>
    /\ Properties = <<>>
    /\ ContactProperties = {}
    /\ Tasks = <<>>
    /\ Deals = <<>>
    /\ LeadScores = <<>>
    /\ ret = NoCall

Next ==
    \/ AddContact(StoreContacts)
    \/ AdvanceClock(StoreSteps)
    \/ ScoreLeads
    \/ GetFollowUpTasks

Spec == Init /\ [][Next]_vars

(***************************************************************************)
(* The follow-up specification: contacts arrive, time passes tick by tick, *)
(* the follow-up list is asked for.                                        *)
(***************************************************************************)
FollowContacts ==
    {c \in [lead_status : {"Hot", "Warm", "Cold", NULL},
            source : {"Referral"},
            notes : {NullNotes},
            last_contacted_date : {NullDate, IsoDate(0, ""), IsoDate(Days(4), ""),
                                   IsoDate(0, "Z"), IsoDate(0, "-"), TextDate(TRUE)},
            created_date : {NullDate, IsoDate(0, "")}] :
        /\ c.created_date = NullDate => c.last_contacted_date = NullDate
        /\ c.lead_status = NULL => c.last_contacted_date = IsoDate(0, "")
        /\ c.last_contacted_date.tz = "Z" => c.lead_status = "Hot"}

NextFollow ==
    \/ AddContact(FollowContacts)
    \/ AdvanceClock({1})
    \/ GetFollowUpTasks

SpecFollow == Init /\ [][NextFollow]_vars

(***************************************************************************)
(* The buyer-matching specification: the sample properties, contacts and   *)
(* ownership links arrive, buyers are asked for.                           *)
(***************************************************************************)
\* database.py, insert_sample_data: an apartment and the villa.
SampleProperties ==
    <<[property_type |-> "Apartment", area |-> "Palm Jumeirah"],
      [property_type |-> "Villa", area |-> "Palm Jumeirah"]>>

\* The properties of the buyer-matching specification: the sample villa
\* and a property stored without type and area (both columns are nullable).
BuyerProperties ==
    <<SampleProperties[2], [property_type |-> NULL, area |-> NULL]>>

BuyerContacts ==
    {c \in [lead_status : {"Hot", "Warm", "Cold", NULL},
            source : {"Referral"},
            notes : {NullNotes, NotesOf({"Villa", "URGENT"}), NotesOf({"palm jumeirah"})},
            last_contacted_date : {NullDate},
            created_date : {IsoDate(0, "")}] :
        c.lead_status \in {"Cold", NULL} => c.notes \in {NullNotes, NotesOf({"Villa", "URGENT"})}}

\* UNIQUE(contact_id, property_id, relationship_type)
ContactPropertiesConflict(old, new) ==
    /\ old.contact_id = new.contact_id
    /\ old.property_id = new.property_id
    /\ old.relationship_type = new.relationship_type

\* A row written to ContactProperties by a plain INSERT, which the UNIQUE
\* constraint lets through for a new (contact, property, type) only.
AddContactProperty(rels) ==
    /\ \E c \in DOMAIN Contacts, p \in DOMAIN Properties, r \in rels :
         LET row == [contact_id |-> c, property_id |-> p, relationship_type |-> r,
                     created_date |-> IsoDate(now, "")]
         IN  /\ \A old \in ContactProperties : ~ContactPropertiesConflict(old, row)
             /\ ContactProperties' = ContactProperties \cup {row}
    /\ ret' = NoCall
    /\ UNCHANGED <<now, Contacts, Properties, Tasks, Deals, LeadScores>>

FindMatchingBuyers ==
    /\ \E property_id \in 1..(Len(Properties) + 1) :
         \E r \in {find_matching_buyers(Contacts, Properties, ContactProperties, property_id)} :
             \E conn \in ConnAfter(r.closed) :
                 ret' = [Call("find_matching_buyers", property_id, r.exc, r.val, <<>>, 0)
                            EXCEPT !.conn = conn]
    /\ UNCHANGED <<now, Contacts, Properties, ContactProperties, Tasks, Deals, LeadScores>>

InitBuyers ==
    /\ now = 0
    /\ Contacts = <<>>
    /\ Properties = BuyerProperties
    /\ ContactProperties = {}
    /\ Tasks = <<>>
    /\ Deals = <<>>
    /\ LeadScores = <<>>
    /\ ret = NoCall

NextBuyers ==
    \/ AddContact(BuyerContacts)
    \/ AddContactProperty({"Owner"})
    \/ FindMatchingBuyers

SpecBuyers == InitBuyers /\ [][NextBuyers]_vars

(***************************************************************************)
(* The lead-score specification: one contact drawn from the field values   *)
(* the scoring tables distinguish, seen at a drawn age; property links and *)
(* tasks arrive; the score is computed.                                    *)
(***************************************************************************)
ScoreNotes ==
    {NullNotes, NotesOf({}), NotesOf({"call back"}), NotesOf({"cash buyer", "URGENT"}),
     NotesOf({"cash buyer", "urgent"}),
     NotesOf({"not interested", "postpone", "delayed", "maybe later"}),
     NotesOf(high_intent_keywords \cup medium_intent_keywords)}

ScoreContacts ==
    {c \in [lead_status : {"Hot", "Warm", "Cold", NULL},
            source : {"Referral", "Previous Client", "Social Media", "Website",
                      "Walk-in", "Cold Call", NULL},
            notes : ScoreNotes,
            last_contacted_date : {NullDate, IsoDate(0, ""), TextDate(FALSE)},
            created_date : {NullDate, IsoDate(0, "")}] :
        /\ c.last_contacted_date.kind = "iso" => c.created_date = NullDate
        /\ c.last_contacted_date.kind = "text" => c.created_date # NullDate}

ScoreNows == {Days(d) : d \in {0, 2, 5, 20, 60, 100}}

\* A row written to Tasks.
AddTask(statuses) ==
    /\ Len(Tasks) < MaxTasks
    /\ \E c \in DOMAIN Contacts, st \in statuses :
         Tasks' = Append(Tasks, [contact_id |-> c, status |-> st])
    /\ ret' = NoCall
    /\ UNCHANGED <<now, Contacts, Properties, ContactProperties, Deals, LeadScores>>

\* One pass of the loop of score_leads: the score of a contact and the
\* priority level of that score.
CalcLeadScore ==
    /\ \E id \in DOMAIN Contacts :
         \E r \in {_calculate_lead_score(now, WithIds(Contacts)[id], ContactProperties, Tasks, FALSE)} :
             ret' = Call("_calculate_lead_score", id, r.exc,
                         [priority_level |-> _get_priority_level(r.total_score)] @@ r, <<>>, 0)
    /\ UNCHANGED <<now, Contacts, Properties, ContactProperties, Tasks, Deals, LeadScores>>

InitScore ==
    /\ now \in ScoreNows
    /\ \E c \in ScoreContacts : Contacts = <<c>>
    /\ Properties = SampleProperties
    /\ ContactProperties = {}
    /\ Tasks = <<>>
    /\ Deals = <<>>
    /\ LeadScores = <<>>
    /\ ret = NoCall

NextScore ==
    \/ AddContactProperty({"Interested", "Viewing Scheduled"})
    \/ AddTask({"Pending"})
    \/ CalcLeadScore

SpecScore == InitScore /\ [][NextScore]_vars

(***************************************************************************)
(* The deal specification: one contact drawn from the field values the     *)
(* probability tables distinguish, seen at a drawn age; deals arrive; the  *)
(* probability is predicted.                                               *)
(***************************************************************************)
DealContacts ==
    [lead_status : {"Hot", "Warm", "Cold", NULL},
     source : {"Referral", "Previous Client", "Website", "Walk-in", "Cold Call", NULL},
     notes : {NullNotes},
     last_contacted_date : {NullDate, TextDate(FALSE), IsoDate(0, ""), IsoDate(Days(1), ""),
                            IsoDate(0, "-")},
     created_date : {IsoDate(0, "")}]

DealDates == {NullDate, TextDate(FALSE), IsoDate(0, ""), IsoDate(0, "-")}

DealNows == {Days(d) : d \in {2, 10, 40, 70}}

\* A row written to Deals.  property_id is a nullable INTEGER whose
\* reference is not enforced (no PRAGMA foreign_keys): 0 stands for a value
\* that is the id of no property.
AddDeal ==
    /\ Len(Deals) < MaxDeals
    /\ \E c \in DOMAIN Contacts, p \in DOMAIN Properties \cup {0}, d \in DealDates :
         Deals' = Append(Deals, [contact_id |-> c, property_id |-> p, created_date |-> d])
    /\ ret' = NoCall
    /\ UNCHANGED <<now, Contacts, Properties, ContactProperties, Tasks, LeadScores>>

PredictDealProbability ==
    /\ \E deal_id \in 1..(Len(Deals) + 1) :
         \E r \in {predict_deal_probability(now, Deals, Contacts, Properties, deal_id)} :
             \E conn \in ConnAfter(r.closed) :
                 ret' = [Call("predict_deal_probability", deal_id, r.exc, r,
                              IF r.exc = "none" THEN <<>>
                              ELSE <<"Error predicting deal probability">>, 0)
                            EXCEPT !.conn = conn]
    /\ UNCHANGED <<now, Contacts, Properties, ContactProperties, Tasks, Deals, LeadScores>>

InitDeals ==
    /\ now \in DealNows
    /\ \E c \in DealContacts : Contacts = <<c>>
    /\ Properties = <<SampleProperties[1]>>
    /\ ContactProperties = {}
    /\ Tasks = <<>>
    /\ Deals = <<>>
    /\ LeadScores = <<>>
    /\ ret = NoCall

NextDeals ==
    \/ AddDeal
    \/ PredictDealProbability

SpecDeals == InitDeals /\ [][NextDeals]_vars

(***************************************************************************)
(* The engagement specification: two contacts and the sample properties;   *)
(* property links and tasks, open and completed, arrive; the engagement    *)
(* score of a contact is computed.                                         *)
(***************************************************************************)
CalcEngagementScore ==
    /\ \E id \in DOMAIN Contacts :
         \E r \in {_calculate_engagement_score(id, ContactProperties, Tasks, FALSE)} :
             ret' = Call("_calculate_engagement_score", id, "none", r, <<>>, 0)
    /\ UNCHANGED <<now, Contacts, Properties, ContactProperties, Tasks, Deals, LeadScores>>

InitEngagement ==
    /\ now = 0
    /\ Contacts = <<[lead_status |-> "Hot", source |-> "Referral", notes |-> NullNotes,
                     last_contacted_date |-> NullDate, created_date |-> IsoDate(0, "")],
                    [lead_status |-> "Warm", source |-> "Website", notes |-> NullNotes,
                     last_contacted_date |-> NullDate, created_date |-> IsoDate(0, "")]>>
    /\ Properties = SampleProperties
    /\ ContactProperties = {}
    /\ Tasks = <<>>
    /\ Deals = <<>>
    /\ LeadScores = <<>>
    /\ ret = NoCall

NextEngagement ==
    \/ AddContactProperty({"Interested", "Owner"})
    \/ AddTask({"Pending", "Completed"})
    \/ CalcEngagementScore

SpecEngagement == InitEngagement /\ [][NextEngagement]_vars

(***************************************************************************)
(* The recency specification: one contact with drawn dates, seen on the    *)
(* days around the breakpoints of the step function, early and late in the *)
(* day; the recency score is computed.                                     *)
(***************************************************************************)
RecencyDays == {0, 1, 2, 3, 4, 7, 8, 30, 31, 90, 91, 120}
RecencyNows == {Days(d) + h : d \in RecencyDays, h \in {0, TicksPerDay - 1}}

RecencyContacts ==
    [lead_status : {"Hot"},
     source : {"Referral"},
     notes : {NullNotes},
     last_contacted_date : {NullDate, IsoDate(0, ""), IsoDate(0, "Z"), IsoDate(0, "+"),
                            TextDate(FALSE)},
     created_date : {NullDate, IsoDate(0, "")}]

CalcRecencyScore ==
    /\ \E id \in DOMAIN Contacts :
         \E r \in {_calculate_recency_score(now, Contacts[id].last_contacted_date,
                                            Contacts[id].created_date)} :
             ret' = Call("_calculate_recency_score", id, r.exc, r.val, <<>>, 0)
    /\ UNCHANGED <<now, Contacts, Properties, ContactProperties, Tasks, Deals, LeadScores>>

InitRecency ==
    /\ now \in RecencyNows
    /\ \E c \in RecencyContacts : Contacts = <<c>>
    /\ Properties = <<>>
    /\ ContactProperties = {}
    /\ Tasks = <<>>
    /\ Deals = <<>>
    /\ LeadScores = <<>>
    /\ ret = NoCall

NextRecency == CalcRecencyScore

SpecRecency == InitRecency /\ [][NextRecency]_vars

(***************************************************************************)
(* The priority-level specification: the level of every score from 0.0 to  *)
(* 100.0 is computed.                                                      *)
(***************************************************************************)
MaxScore == 1000

GetPriorityLevel ==
    /\ \E score \in 0..MaxScore :
         ret' = Call("_get_priority_level", score, "none", _get_priority_level(score), <<>>, 0)
    /\ UNCHANGED <<now, Contacts, Properties, ContactProperties, Tasks, Deals, LeadScores>>

NextLevel == GetPriorityLevel

SpecLevel == Init /\ [][NextLevel]_vars

(***************************************************************************)
(* Contact intake: database.py insert_sample_data (run by init_database)   *)
(* and knowledge_base.py add_contacts_from_csv.                            *)
(***************************************************************************)
\* The rows of insert_sample_data, by the columns the model keeps.
sample_properties ==
    <<[property_type |-> "Apartment", area |-> "Palm Jumeirah"],
      [property_type |-> "Apartment", area |-> "Palm Jumeirah"],
      [property_type |-> "Apartment", area |-> "Palm Jumeirah"],
      [property_type |-> "Apartment", area |-> "Palm Jumeirah"],
      [property_type |-> "Villa", area |-> "Palm Jumeirah"]>>

sample_contacts ==
    <<[lead_status |-> "Hot", source |-> "Referral"],
      [lead_status |-> "Warm", source |-> "Website"],
      [lead_status |-> "Cold", source |-> "Walk-in"],
      [lead_status |-> "Hot", source |-> "Social Media"],
      [lead_status |-> "Warm", source |-> "Previous Client"]>>

sample_relationships ==
    {[contact_id |-> 1, property_id |-> 1, relationship_type |-> "Owner"],
     [contact_id |-> 2, property_id |-> 2, relationship_type |-> "Interested"],
     [contact_id |-> 3, property_id |-> 3, relationship_type |-> "Previous Owner"],
     [contact_id |-> 4, property_id |-> 4, relationship_type |-> "Viewing Scheduled"],
     [contact_id |-> 5, property_id |-> 5, relationship_type |-> "Owner"]}

\* contact_id 0: the task of no contact (None).
sample_tasks ==
    <<[contact_id |-> 1, status |-> "Pending"],
      [contact_id |-> 2, status |-> "Pending"],
      [contact_id |-> 4, status |-> "In Progress"],
      [contact_id |-> 0, status |-> "Pending"],
      [contact_id |-> 5, status |-> "Pending"]>>

\* INSERT INTO Contacts (name, email, phone, lead_status, source,
\* created_date): the columns not named stay NULL.
ContactRow(lead_status, source, nowt) ==
    [lead_status |-> lead_status, source |-> source, notes |-> NullNotes,
     last_contacted_date |-> NullDate, created_date |-> IsoDate(nowt, "")]

\* Returns the four tables after the call: nothing is written when
\* Properties already holds a row.
insert_sample_data(nowt, properties, contacts, cp, tasks) ==
    IF Len(properties) > 0
    THEN [Properties |-> properties, Contacts |-> contacts,
          ContactProperties |-> cp, Tasks |-> tasks]
    ELSE [Properties |-> properties \o sample_properties,
          Contacts |-> contacts \o [i \in DOMAIN sample_contacts |->
                                       ContactRow(sample_contacts[i].lead_status,
                                                  sample_contacts[i].source, nowt)],
          ContactProperties |-> cp \cup {[created_date |-> IsoDate(nowt, "")] @@ r :
                                             r \in sample_relationships},
          Tasks |-> tasks \o sample_tasks]

\* A CSV file: whether its header is ['name', 'email', 'phone',
\* 'lead_status'], and its data rows by their number of columns n and the
\* text of the fourth column.
CsvStatuses == {"Hot", "Warm", "Cold", "", "Lukewarm"}
CsvRows == [n : {4}, lead_status : CsvStatuses] \cup {[n |-> 0, lead_status |-> ""]}
CsvFiles ==
    [header_ok : BOOLEAN, rows : UNION {[1..k -> CsvRows] : k \in 0..MaxContacts}]

\* Returns [exc, val, Contacts].  row[3] of a row with fewer than four
\* columns raises IndexError: the handler returns False and the rows
\* inserted so far are never committed.
add_contacts_from_csv(nowt, contacts, file, filename) ==
    LET bad == {i \in DOMAIN file.rows : file.rows[i].n < 4}
        n == IF bad = {} THEN Len(file.rows)
             ELSE (CHOOSE i \in bad : \A j \in bad : i <= j) - 1
        W[i \in 0..n] ==
            IF i = 0 THEN SqlConnect(contacts)
            ELSE [W[i - 1] EXCEPT !.work =
                      Append(@, ContactRow(file.rows[i].lead_status, filename, nowt))]
    IN  IF ~file.header_ok THEN [exc |-> "none", val |-> FALSE, Contacts |-> contacts]
        ELSE IF bad # {} THEN [exc |-> "IndexError", val |-> FALSE, Contacts |-> SqlClose(W[n])]
        ELSE [exc |-> "none", val |-> TRUE, Contacts |-> SqlClose(SqlCommit(W[n]))]

InitDatabase ==
    /\ \E r \in {insert_sample_data(now, Properties, Contacts, ContactProperties, Tasks)} :
           /\ Properties' = r.Properties
           /\ Contacts' = r.Contacts
           /\ ContactProperties' = r.ContactProperties
           /\ Tasks' = r.Tasks
    /\ ret' = Call("init_database", 0, "none", <<>>, <<>>, 0)
    /\ UNCHANGED <<now, Deals, LeadScores>>

AddContactsFromCsv ==
    /\ \E file \in CsvFiles :
         /\ Len(Contacts) + Len(file.rows)
                <= MaxContacts + (IF Len(Properties) > 0 THEN Len(sample_contacts) ELSE 0)
         /\ \E r \in {add_contacts_from_csv(now, Contacts, file, "contacts.csv")} :
                /\ Contacts' = r.Contacts
                /\ ret' = Call("add_contacts_from_csv", file, r.exc, r.val,
                               IF r.exc = "none" THEN <<>> ELSE <<"Error adding contacts">>, 0)
    /\ UNCHANGED <<now, Properties, ContactProperties, Tasks, Deals, LeadScores>>

NextIntake ==
    \/ InitDatabase
    \/ AddContactsFromCsv

SpecIntake == Init /\ [][NextIntake]_vars

(***************************************************************************)
(* The populated-store specification: the store holds the sample data and  *)
(* a deal; time passes and the four scoring operations are called.         *)
(***************************************************************************)
FrameDeals ==
    {[contact_id |-> 1, property_id |-> 1, created_date |-> IsoDate(0, "")],
     [contact_id |-> 2, property_id |-> 5, created_date |-> NullDate]}

InitFrame ==
    /\ now = 0
    /\ \E r \in {insert_sample_data(0, <<>>, <<>>, {}, <<>>)} :
           /\ Properties = r.Properties
           /\ Contacts = r.Contacts
           /\ ContactProperties = r.ContactProperties
           /\ Tasks = r.Tasks
    /\ \E d \in FrameDeals : Deals = <<d>>
    /\ LeadScores = <<>>
    /\ ret = NoCall

NextFrame ==
    \/ AdvanceClock(StoreSteps)
    \/ ScoreLeadsWithin(MaxScoreRows + Len(sample_contacts))
    \/ GetFollowUpTasks
    \/ FindMatchingBuyers
    \/ PredictDealProbability

SpecFrame == InitFrame /\ [][NextFrame]_vars

(***************************************************************************)
(* The contact-log specification: a Hot, a Warm and a Cold contact never   *)
(* contacted; time passes tick by tick, a contact is logged as contacted,  *)
(* the follow-up list is asked for.                                        *)
(***************************************************************************)
\* UPDATE Contacts SET last_contacted_date = ?, updated_date = ? WHERE id = ?
\* with datetime.now().isoformat(); no row matches an id of no contact.
\* updated_date is read by no operation of the model and is not kept.
update_lead_last_contacted(nowt, contacts, contact_id) ==
    [id \in DOMAIN contacts |->
        IF id = contact_id
        THEN [contacts[id] EXCEPT !.last_contacted_date = IsoDate(nowt, "")]
        ELSE contacts[id]]

\* UpdateLeadLastContacted that writes updated_date only.
UpdateLeadLastContacted_mut ==
    /\ \E contact_id \in 1..(Len(Contacts) + 1) :
           ret' = Call("update_lead_last_contacted", contact_id, "none", TRUE, <<>>, 0)
    /\ UNCHANGED <<now, Contacts, Properties, ContactProperties, Tasks, Deals, LeadScores>>

UpdateLeadLastContacted ==
    /\ \E contact_id \in 1..(Len(Contacts) + 1) :
           /\ Contacts' = update_lead_last_contacted(now, Contacts, contact_id)
           /\ ret' = Call("update_lead_last_contacted", contact_id, "none", TRUE, <<>>, 0)
    /\ UNCHANGED <<now, Properties, ContactProperties, Tasks, Deals, LeadScores>>

InitContacted ==
    /\ now = 0
    /\ Contacts = [i \in 1..3 |-> ContactRow(sample_contacts[i].lead_status,
                                             sample_contacts[i].source, 0)]
    /\ Properties = <<>>
    /\ ContactProperties = {}
    /\ Tasks = <<>>
    /\ Deals = <<>>
    /\ LeadScores = <<>>
    /\ ret = NoCall

NextContacted ==
    \/ AdvanceClock({1})
    \/ UpdateLeadLastContacted
    \/ GetFollowUpTasks

SpecContacted == InitContacted /\ [][NextContacted]_vars

(***************************************************************************)
(* The viewing specification: one contact and the sample properties; time  *)
(* passes, the contact takes interest in properties, viewings are          *)
(* scheduled, the engagement score is computed.                            *)
(***************************************************************************)
\* CpInsertOrReplace as a plain insert into a table without the key.
CpInsertOrReplace_mut(cp, row) == cp \cup {row}

\* INSERT OR REPLACE INTO ContactProperties: delete the rows that conflict
\* on the UNIQUE key, then insert.
CpInsertOrReplace(cp, row) ==
    {r \in cp : ~ContactPropertiesConflict(r, row)} \cup {row}

\* Returns the tables Tasks and ContactProperties after a successful call:
\* one 'Scheduled' task and the 'Viewing Scheduled' link, committed together.
schedule_property_viewing(nowt, cp, tasks, contact_id, property_id) ==
    [Tasks |-> Append(tasks, [contact_id |-> contact_id, status |-> "Scheduled"]),
     ContactProperties |->
         CpInsertOrReplace(cp, [contact_id |-> contact_id, property_id |-> property_id,
                                relationship_type |-> "Viewing Scheduled",
                                created_date |-> IsoDate(nowt, "")])]

SchedulePropertyViewing ==
    /\ Len(Tasks) < MaxTasks
    /\ \E contact_id \in DOMAIN Contacts, property_id \in DOMAIN Properties :
         \E r \in {schedule_property_viewing(now, ContactProperties, Tasks,
                                             contact_id, property_id)} :
             /\ Tasks' = r.Tasks
             /\ ContactProperties' = r.ContactProperties
             /\ ret' = Call("schedule_property_viewing",
                            [contact_id |-> contact_id, property_id |-> property_id],
                            "none", TRUE, <<>>, 0)
    /\ UNCHANGED <<now, Contacts, Properties, Deals, LeadScores>>

InitViewing ==
    /\ now = 0
    /\ Contacts = <<ContactRow(sample_contacts[1].lead_status, sample_contacts[1].source, 0)>>
    /\ Properties = SampleProperties
    /\ ContactProperties = {}
    /\ Tasks = <<>>
    /\ Deals = <<>>
    /\ LeadScores = <<>>
    /\ ret = NoCall

NextViewing ==
    \/ AdvanceClock(StoreSteps)
    \/ AddContactProperty({"Interested"})
    \/ SchedulePropertyViewing
    \/ CalcEngagementScore

SpecViewing == InitViewing /\ [][NextViewing]_vars

(***************************************************************************)
(* Properties.                                                             *)
(***************************************************************************)
Range(f) == {f[i] : i \in DOMAIN f}
Returned(id) == \E i \in DOMAIN ret.val : ret.val[i].contact_id = id
EntryOf(id) == ret.val[CHOOSE i \in DOMAIN ret.val : ret.val[i].contact_id = id]

\* C1: after any sequence of score_leads runs, LeadScores holds at most one
\* record per contact_id.
C1_OneScorePerContact ==
    \A i, j \in DOMAIN LeadScores :
        LeadScores[i].contact_id = LeadScores[j].contact_id => i = j

\* C2: the total returned by _calculate_lead_score lies in [0, 100] and is
\* 0.40*lead_status + 0.15*source + 0.20*recency + 0.15*engagement +
\* 0.10*intent of the reported breakdown, rounded to one decimal (the total
\* is in tenths, the sum in hundredths: the total is a nearest tenth).
C2_TotalIsWeightedSum ==
    (ret.op = "_calculate_lead_score" /\ ret.exc = "none") =>
        LET b == ret.val.breakdown
            sum == 40 * b.lead_status + 15 * b.source + 20 * b.recency
                   + 15 * b.engagement + 10 * b.intent
            total == ret.val.total_score
        IN  /\ 0 <= total /\ total <= 1000
            /\ 10 * total - sum <= 5
            /\ sum - 10 * total <= 5

\* C2 witness: a score was computed for a contact of unknown status whose
\* weighted sum lies halfway between two tenths, with engagement capped.
C2_Witness ==
    /\ ret.op = "_calculate_lead_score" /\ ret.exc = "none"
    /\ Contacts[ret.arg].lead_status = NULL
    /\ ret.val.breakdown.engagement = 100
    /\ CountInterests(ContactProperties, ret.arg) * 30 + CountTasks(Tasks, ret.arg) * 20 > 100
    /\ WeightedTotal(ret.val.breakdown) % 10 = 5

\* C3: for every deal that is found the returned probability is
\* clamp(50 + the sum of the four values reported in probability_factors).
C3_ProbabilityIsClampedSum ==
    (ret.op = "predict_deal_probability" /\ ret.val.error = "") =>
        LET f == ret.val.probability_factors
            sum == 50 + f.lead_status + f.lead_source + f.deal_age + f.recent_contact
        IN  ret.val.probability = (IF sum < 0 THEN 0 ELSE IF sum > 100 THEN 100 ELSE sum)

\* The scenario of C4: Hot, Referral, deal created 2 days ago, contact last
\* contacted 1 day ago.
C4_ScenarioDeal(deal_id) ==
    /\ deal_id \in DOMAIN Deals
    /\ Contacts[Deals[deal_id].contact_id].lead_status = "Hot"
    /\ Contacts[Deals[deal_id].contact_id].source = "Referral"
    /\ Deals[deal_id].created_date = IsoDate(now - Days(2), "")
    /\ Contacts[Deals[deal_id].contact_id].last_contacted_date = IsoDate(now - Days(1), "")

\* C4: a returned probability lies in [0, 100], confidence_level is its
\* five-band step function, and the scenario gives 100 and Very High.
C4_ProbabilityBands ==
    (ret.op = "predict_deal_probability" /\ ret.val.error = "") =>
        LET pr == ret.val.probability
            cl == ret.val.confidence_level
        IN  /\ 0 <= pr /\ pr <= 100
            /\ (cl = "Very High") = (pr >= 80)
            /\ (cl = "High") = (pr >= 60 /\ pr < 80)
            /\ (cl = "Moderate") = (pr >= 40 /\ pr < 60)
            /\ (cl = "Low") = (pr >= 20 /\ pr < 40)
            /\ (cl = "Very Low") = (pr < 20)
            /\ C4_ScenarioDeal(ret.arg) => (pr = 100 /\ cl = "Very High")

\* C4 witness: the scenario deal has been predicted.
C4_Witness ==
    /\ ret.op = "predict_deal_probability" /\ ret.val.error = ""
    /\ C4_ScenarioDeal(ret.arg)
    /\ ret.val.probability_factors =
           [lead_status |-> 30, lead_source |-> 20, deal_age |-> 10, recent_contact |-> 15]

\* The reference date of C5: last_contacted_date if present, else
\* created_date; usable when it is an ISO timestamp that parses to a naive
\* datetime.
C5_Reference(c) ==
    IF c.last_contacted_date.kind # "null" THEN c.last_contacted_date ELSE c.created_date

C5_Interval(status) == CASE status = "Hot" -> 1 [] status = "Warm" -> 3 [] OTHER -> 7

\* C5: get_follow_up_tasks returns a Hot, Warm or Cold contact with a
\* parseable reference date exactly when now - reference_date >= interval.
C5_DueExactlyWhenElapsed ==
    (ret.op = "get_follow_up_tasks" /\ ret.exc = "none") =>
        \A id \in DOMAIN Contacts :
            LET c == Contacts[id]
                ref == C5_Reference(c)
            IN  (c.lead_status \in {"Hot", "Warm", "Cold"} /\ ref.kind = "iso" /\ ref.tz # "-") =>
                    (Returned(id) <=> now - ref.t >= Days(C5_Interval(c.lead_status)))

IsOwnerOf(id, property_id) ==
    \E r \in ContactProperties :
        r.contact_id = id /\ r.property_id = property_id /\ r.relationship_type = "Owner"

\* C7: find_matching_buyers(p) excludes a contact exactly when the contact
\* is an Owner of p; an Owner of other properties only is still returned
\* (stated for the Hot and Warm contacts).
C7_ExcludesOwnersOfTargetOnly ==
    (ret.op = "find_matching_buyers" /\ ret.arg \in DOMAIN Properties) =>
        \A id \in DOMAIN Contacts :
            Contacts[id].lead_status \in {"Hot", "Warm"} =>
                (~Returned(id) <=> IsOwnerOf(id, ret.arg))

\* The note bonuses of the match score: +20 property type, +15 area, +10
\* "urgent" or "asap"; a type or area the property does not have counts
\* as found in every notes value (the code looks for the empty string).
C8_Bonus(c, property) ==
    LET has(k) == \E ph \in c.notes.phrases : k \in SubstringsOf(Lower(ph))
    IN  (IF property.property_type = NULL \/ has(Lower(property.property_type)) THEN 20 ELSE 0)
        + (IF property.area = NULL \/ has(Lower(property.area)) THEN 15 ELSE 0)
        + (IF has("urgent") \/ has("asap") THEN 10 ELSE 0)

C8_Descending ==
    \A i, j \in DOMAIN ret.val : i < j => ret.val[i].match_score >= ret.val[j].match_score

\* C8 as claimed: every contact that is not an Owner of p, whatever its
\* lead status, is returned with base (Hot 100, Warm 70, Cold 30, unknown
\* 10) plus the note bonuses, in descending match-score order.
C8_WholePopulationRanked ==
    (ret.op = "find_matching_buyers" /\ ret.arg \in DOMAIN Properties) =>
        /\ \A id \in DOMAIN Contacts :
               ~IsOwnerOf(id, ret.arg) =>
                   /\ Returned(id)
                   /\ EntryOf(id).match_score =
                          (CASE Contacts[id].lead_status = "Hot" -> 100
                             [] Contacts[id].lead_status = "Warm" -> 70
                             [] Contacts[id].lead_status = "Cold" -> 30
                             [] OTHER -> 10)
                          + C8_Bonus(Contacts[id], Properties[ret.arg])
        /\ C8_Descending

\* C8 amended: every Hot or Warm contact that owns no property is returned
\* with base (Hot 100, Warm 70) plus the note bonuses, no contact of
\* another status is returned, and the list is in descending match-score
\* order.
C8_HotWarmRanked ==
    (ret.op = "find_matching_buyers" /\ ret.arg \in DOMAIN Properties) =>
        /\ \A id \in DOMAIN Contacts :
               (/\ Contacts[id].lead_status \in {"Hot", "Warm"}
                /\ \A p \in DOMAIN Properties : ~IsOwnerOf(id, p)) =>
                   /\ Returned(id)
                   /\ EntryOf(id).match_score =
                          (IF Contacts[id].lead_status = "Hot" THEN 100 ELSE 70)
                          + C8_Bonus(Contacts[id], Properties[ret.arg])
        /\ \A i \in DOMAIN ret.val : ret.val[i].status \in {"Hot", "Warm"}
        /\ C8_Descending

\* C8 witness: a Hot buyer was returned with the type and urgency bonuses
\* while a Cold contact that owns nothing was left out.
C8_Witness ==
    /\ ret.op = "find_matching_buyers" /\ ret.arg \in DOMAIN Properties
    /\ Len(ret.val) >= 1
    /\ ret.val[1].status = "Hot"
    /\ ret.val[1].match_score = 130
    /\ \E id \in DOMAIN Contacts :
           /\ Contacts[id].lead_status = "Cold"
           /\ \A p \in DOMAIN Properties : ~IsOwnerOf(id, p)
           /\ ~Returned(id)

\* C9: a date field that is missing or is no usable date never makes
\* score_leads or get_follow_up_tasks fail: no date error reaches the outer
\* handler, and a scoring run the store does not fail returns every
\* contact, with recency 30 when both dates are absent.
C9_DatesNeverFail ==
    /\ ret.op \in {"score_leads", "get_follow_up_tasks"} =>
           ret.exc \notin {"TypeError", "ValueError", "AttributeError"}
    /\ (ret.op = "score_leads" /\ ret.exc # "OperationalError") =>
           \A id \in DOMAIN Contacts :
               /\ Returned(id)
               /\ (Contacts[id].last_contacted_date = NullDate
                   /\ Contacts[id].created_date = NullDate)
                      => EntryOf(id).score_breakdown.recency = 30

\* C10: a scoring run leaves the records of earlier runs intact and adds
\* either no record or one record per contact; it adds none when the write
\* failed, and one per contact when the run logged no failure.
C10_AllOrNothing ==
    [][ret'.op = "score_leads" =>
          LET added == Len(LeadScores') - Len(LeadScores)
              failed == "Error updating lead scores in database" \in Range(ret'.log)
          IN  /\ added >= 0
              /\ SubSeq(LeadScores', 1, Len(LeadScores)) = LeadScores
              /\ added \in {0, Len(Contacts)}
              /\ failed => added = 0
              /\ ret'.log = <<>> =>
                     \A id \in DOMAIN Contacts :
                         Cardinality({i \in (Len(LeadScores) + 1)..Len(LeadScores') :
                                         LeadScores'[i].contact_id = id}) = 1
    ]_vars

\* C10 witness: a run whose write failed after a row had been written, on
\* a store that holds the records of an earlier run.
C10_Witness ==
    /\ ret.op = "score_leads"
    /\ "Error updating lead scores in database" \in Range(ret.log)
    /\ ret.rolled_back >= 1
    /\ ret.rolled_back < Len(Contacts)
    /\ LeadScores # <<>>

\* C11: a scoring run during which the record store failed (reading the
\* contacts, reading a contact's engagement counts, writing or committing
\* the score records) returns the empty list.
C11_StoreFailureFailsRun ==
    (ret.op = "score_leads" /\ ret.fault # "none") => ret.val = <<>>

\* C12: predict_deal_probability(deal_id) returns 'Deal not found' exactly
\* when Deals holds no record with that id, returns a prediction for every
\* record that exists, and in neither case meets an exception or returns
\* the generic failure result.
C12_NotFoundExactlyWhenAbsent ==
    ret.op = "predict_deal_probability" =>
        /\ ret.exc = "none"
        /\ (ret.val.error = "Deal not found") <=> (ret.arg \notin DOMAIN Deals)
        /\ ret.arg \in DOMAIN Deals => ret.val.error = ""

\* C13: after any sequence of intake operations every Contact record has
\* lead_status Hot, Warm or Cold.
C13_LeadStatusEnumerated ==
    \A id \in DOMAIN Contacts : Contacts[id].lead_status \in {"Hot", "Warm", "Cold"}

\* C14: a scoring run that directly follows a scoring run, on the same
\* records at the same time, returns the same list: the same total score
\* and the same breakdown for every contact (stated for the runs whose
\* reads of the store succeed; a failed write changes no returned score).
C14_SecondRunSameScores ==
    [][(/\ ret.op = "score_leads" /\ ret.fault \notin {"contacts", "engagement"}
        /\ ret'.op = "score_leads" /\ ret'.fault \notin {"contacts", "engagement"})
       => /\ ret'.val = ret.val
          /\ \A i \in DOMAIN ret.val :
                 /\ ret'.val[i].score = ret.val[i].score
                 /\ ret'.val[i].score_breakdown = ret.val[i].score_breakdown
    ]_vars

\* C14 witness: two scoring runs have scored the same two contacts at the
\* same time (every contact has its two records of this time), and scores
\* were returned.
C14_Witness ==
    /\ ret.op = "score_leads" /\ ret.fault = "none"
    /\ Len(Contacts) = 2
    /\ Len(ret.val) = 2
    /\ \A id \in DOMAIN Contacts :
           Cardinality({i \in DOMAIN LeadScores : LeadScores[i].contact_id = id}) = 2
    /\ \A i \in DOMAIN LeadScores : LeadScores[i].last_calculated = now

\* The scenario of C15: Hot, Referral, last contacted 0 days ago, 2
\* Interested property links, 1 task, notes 'cash buyer, urgent'.
C15_Scenario(id) ==
    LET c == Contacts[id] IN
    /\ c.lead_status = "Hot" /\ c.source = "Referral"
    /\ c.last_contacted_date.kind = "iso" /\ c.last_contacted_date.tz = ""
    /\ now - c.last_contacted_date.t \in 0..(TicksPerDay - 1)
    /\ c.notes = NotesOf({"cash buyer", "urgent"})
    /\ Cardinality({r \in ContactProperties :
                        r.contact_id = id /\ r.relationship_type = "Interested"}) = 2
    /\ Cardinality({r \in ContactProperties : r.contact_id = id}) = 2
    /\ Cardinality({i \in DOMAIN Tasks : Tasks[i].contact_id = id}) = 1

\* C15: the scenario contact gets sub-scores 100 (status), 90 (source), 100
\* (recency), 80 (engagement), 90 (intent), total 94.5 and tier High.
C15_ScenarioScore ==
    (ret.op = "_calculate_lead_score" /\ C15_Scenario(ret.arg)) =>
        /\ ret.exc = "none"
        /\ ret.val.breakdown = [lead_status |-> 100, source |-> 90, recency |-> 100,
                                engagement |-> 80, intent |-> 90]
        /\ ret.val.total_score = 945
        /\ ret.val.priority_level = "High"

\* C15 witness: the scenario contact has been scored.
C15_Witness ==
    /\ ret.op = "_calculate_lead_score" /\ C15_Scenario(ret.arg)
    /\ ret.val.breakdown.engagement = 80
    /\ ret.val.total_score > 0

\* C16: a Hot, Warm or Cold contact whose reference date
\* (last_contacted_date, else created_date) is absent or is no ISO date is
\* returned by every get_follow_up_tasks that does not fail, with
\* days_overdue = interval + 1.
C16_UnusableReferenceMaximallyOverdue ==
    (ret.op = "get_follow_up_tasks" /\ ret.exc = "none") =>
        \A id \in DOMAIN Contacts :
            LET c == Contacts[id]
                ref == C5_Reference(c)
            IN  (c.lead_status \in {"Hot", "Warm", "Cold"} /\ ref.kind \in {"null", "text"}) =>
                    /\ Returned(id)
                    /\ EntryOf(id).days_overdue = C5_Interval(c.lead_status) + 1

\* C17: in the list returned by get_follow_up_tasks every Hot contact comes
\* before every Warm contact and every Cold contact.
C17_HotFirst ==
    ret.op = "get_follow_up_tasks" =>
        \A i, j \in DOMAIN ret.val :
            (ret.val[i].status = "Hot" /\ ret.val[j].status \in {"Warm", "Cold"}) => i < j

\* C18: the engagement sub-score of a contact is min(30 * (number of its
\* Interested or Viewing Scheduled property links) + 20 * (number of its
\* tasks that are not Completed), 100).
C18_EngagementCountsOpenTasks ==
    ret.op = "_calculate_engagement_score" =>
        LET links == Cardinality({r \in ContactProperties :
                                     /\ r.contact_id = ret.arg
                                     /\ r.relationship_type \in {"Interested", "Viewing Scheduled"}})
            open == Cardinality({i \in DOMAIN Tasks :
                                    /\ Tasks[i].contact_id = ret.arg
                                    /\ Tasks[i].status # "Completed"})
            sum == 30 * links + 20 * open
        IN  ret.val = (IF sum < 100 THEN sum ELSE 100)

\* C19: for every notes value, missing and empty notes included, the
\* intent sub-score is clamp to [0, 100] of 50 + 20 per matched high-intent
\* keyword + 10 per matched medium-intent keyword - 15 per matched negative
\* keyword; notes that match no keyword give 50.
C19_IntentFromBase50 ==
    (ret.op = "_calculate_lead_score" /\ ret.exc = "none") =>
        LET notes == Contacts[ret.arg].notes
            phrases == IF notes.isnull THEN {} ELSE notes.phrases
            sum == 50 + 20 * Hits(high_intent_keywords, phrases)
                      + 10 * Hits(medium_intent_keywords, phrases)
                      - 15 * Hits(negative_keywords, phrases)
        IN  ret.val.breakdown.intent = (IF sum < 0 THEN 0 ELSE IF sum > 100 THEN 100 ELSE sum)

\* The step function of C20 over whole days since the reference date.
C20_Step(days) ==
    CASE days <= 1 -> 100 [] days \in 2..3 -> 80 [] days \in 4..7 -> 60
      [] days \in 8..30 -> 40 [] days \in 31..90 -> 20 [] OTHER -> 10

\* C20: the recency sub-score is the step function of the days since
\* last_contacted_date when that is a usable date, else of the days since
\* created_date when that is a usable date, and the constant 30 only when
\* neither is.
C20_RecencyFallsBack ==
    (ret.op = "_calculate_lead_score" /\ ret.exc = "none") =>
        LET last == Contacts[ret.arg].last_contacted_date
            created == Contacts[ret.arg].created_date
            days(d) == (now - d.t) \div TicksPerDay
        IN  ret.val.breakdown.recency =
                (IF last.kind = "iso" THEN C20_Step(days(last))
                 ELSE IF created.kind = "iso" THEN C20_Step(days(created))
                 ELSE 30)

\* C21: the match score of a returned buyer holds the type bonus (+20)
\* only when the property has a type that occurs in the contact's notes,
\* and the area bonus (+15) only when the property has an area that occurs
\* in the notes: a property without type or area gives no such bonus.
C21_BonusOnlyForStringsInNotes ==
    (ret.op = "find_matching_buyers" /\ ret.arg \in DOMAIN Properties) =>
        \A i \in DOMAIN ret.val :
            LET c == Contacts[ret.val[i].contact_id]
                property == Properties[ret.arg]
                has(k) == \E ph \in c.notes.phrases : k \in SubstringsOf(Lower(ph))
                base == CASE c.lead_status = "Hot" -> 100 [] c.lead_status = "Warm" -> 70
                          [] c.lead_status = "Cold" -> 30 [] OTHER -> 10
                type_bonus == IF property.property_type # NULL /\ has(Lower(property.property_type))
                              THEN 20 ELSE 0
                area_bonus == IF property.area # NULL /\ has(Lower(property.area))
                              THEN 15 ELSE 0
                urgency == IF has("urgent") \/ has("asap") THEN 10 ELSE 0
            IN  ret.val[i].match_score = base + type_bonus + area_bonus + urgency

\* C22: the recency sub-score computed from a usable reference date is the
\* step function of the elapsed whole days (<= 1: 100, <= 3: 80, <= 7: 60,
\* <= 30: 40, <= 90: 20, more: 10) whatever the time of day and the zone
\* suffix, and no score computed for fewer elapsed days is lower.
C22_RecencyStepNonIncreasing ==
    (ret.op = "_calculate_recency_score" /\ ret.exc = "none") =>
        LET c == Contacts[ret.arg]
            ref == C5_Reference(c)
            days == (now - ref.t) \div TicksPerDay
        IN  ref.kind = "iso" =>
                /\ ret.val = (IF days <= 1 THEN 100 ELSE IF days <= 3 THEN 80
                              ELSE IF days <= 7 THEN 60 ELSE IF days <= 30 THEN 40
                              ELSE IF days <= 90 THEN 20 ELSE 10)
                /\ \A d \in 0..days : RecencyOfDays(d) >= ret.val

\* C22 witness: a score computed exactly three days, to the tick, after
\* the reference date, and one computed late on the 91st day.
C22_Witness ==
    /\ ret.op = "_calculate_recency_score" /\ ret.exc = "none"
    /\ C5_Reference(Contacts[ret.arg]).kind = "iso"
    /\ \/ now - C5_Reference(Contacts[ret.arg]).t = Days(3) /\ ret.val = 80
       \/ now - C5_Reference(Contacts[ret.arg]).t = Days(91) + TicksPerDay - 1 /\ ret.val = 10

\* C23: the priority level is the step function of the score alone (>= 80
\* High, >= 60 Medium, >= 40 Low, below Very Low; scores in tenths) and no
\* lower score has a higher level.
C23_Rank(level) ==
    CASE level = "High" -> 3 [] level = "Medium" -> 2 [] level = "Low" -> 1 [] OTHER -> 0

C23_TierMonotonicStep ==
    ret.op = "_get_priority_level" =>
        /\ ret.val = (IF ret.arg >= 800 THEN "High" ELSE IF ret.arg >= 600 THEN "Medium"
                      ELSE IF ret.arg >= 400 THEN "Low" ELSE "Very Low")
        /\ \A score \in 0..ret.arg :
               C23_Rank(_get_priority_level(score)) <= C23_Rank(ret.val)

\* C23 witness: the level of a score just below a boundary.
C23_Witness ==
    /\ ret.op = "_get_priority_level"
    /\ ret.arg = 799
    /\ ret.val = "Medium"

\* C24: the scoring operations leave the operational records unchanged:
\* score_leads writes LeadScores only; get_follow_up_tasks,
\* find_matching_buyers and predict_deal_probability write nothing.
C24_ScoringOperations ==
    {"score_leads", "get_follow_up_tasks", "find_matching_buyers", "predict_deal_probability"}

C24_OperationalRecordsUnchanged ==
    [][ret'.op \in C24_ScoringOperations =>
          /\ UNCHANGED <<Contacts, Properties, Deals, Tasks, ContactProperties>>
          /\ ret'.op # "score_leads" => UNCHANGED LeadScores
    ]_vars

\* C24 witness: on the populated store, a follow-up list with entries has
\* been returned after a scoring run wrote its records.
C24_Witness ==
    /\ ret.op = "get_follow_up_tasks" /\ Len(ret.val) >= 2
    /\ Len(LeadScores) = Len(Contacts)
    /\ Contacts # <<>> /\ Tasks # <<>> /\ Deals # <<>> /\ ContactProperties # {}

\* C25: for every scored contact the priority level (taken from the
\* rounded total) and the recommendation (taken from the unrounded total)
\* agree: the level is High exactly when the recommendation starts with
\* 'HIGH PRIORITY' and Medium exactly when it starts with 'MEDIUM PRIORITY'.
C25_LevelAgreesWithRecommendation ==
    (ret.op = "_calculate_lead_score" /\ ret.exc = "none") =>
        /\ (ret.val.priority_level = "High")
               <=> (ret.val.recommendation[1] = "HIGH PRIORITY: Contact immediately")
        /\ (ret.val.priority_level = "Medium")
               <=> (ret.val.recommendation[1] = "MEDIUM PRIORITY: Follow up within 24 hours")

\* C25 witness: a contact whose unrounded total lies halfway between two
\* tenths less than half a point below a level boundary.
C25_Witness ==
    /\ ret.op = "_calculate_lead_score" /\ ret.exc = "none"
    /\ WeightedTotal(ret.val.breakdown) \in {7975, 5975}
    /\ ret.val.total_score \in {798, 598}

\* C26: a contact whose lead_status is not Hot, Warm or Cold is never
\* returned by get_follow_up_tasks, however long ago it was last contacted,
\* and no returned entry has the priority of the unknown base 10.
C26_UnknownStatusNeverReturned ==
    ret.op = "get_follow_up_tasks" =>
        /\ \A id \in DOMAIN Contacts :
               Contacts[id].lead_status \notin {"Hot", "Warm", "Cold"} => ~Returned(id)
        /\ \A i \in DOMAIN ret.val :
               ret.val[i].priority # 10 + (IF ret.val[i].days_overdue < 5
                                          THEN 10 * ret.val[i].days_overdue ELSE 50)

\* C26 witness: a list was returned that holds another contact while a
\* contact of unknown status, last contacted more than 7 days ago, is
\* left out.
C26_Witness ==
    /\ ret.op = "get_follow_up_tasks" /\ ret.exc = "none"
    /\ ret.val # <<>>
    /\ \E id \in DOMAIN Contacts :
           /\ Contacts[id].lead_status = NULL
           /\ Contacts[id].last_contacted_date.kind = "iso"
           /\ now - Contacts[id].last_contacted_date.t > Days(7)
           /\ ~Returned(id)

\* C27: every returned entry has days_overdue >= the interval of its
\* status; a Cold entry has priority 70, a Warm entry 90, 100 or 110, a Hot
\* entry 110..150; every Cold entry comes after every Hot and Warm entry.
C27_PriorityRanges ==
    ret.op = "get_follow_up_tasks" =>
        /\ \A i \in DOMAIN ret.val :
               LET e == ret.val[i] IN
               /\ e.days_overdue >= C5_Interval(e.status)
               /\ e.status = "Cold" => e.priority = 70
               /\ e.status = "Warm" => e.priority \in {90, 100, 110}
               /\ e.status = "Hot" => e.priority \in 110..150
        /\ \A i, j \in DOMAIN ret.val :
               (ret.val[i].status = "Cold" /\ ret.val[j].status \in {"Hot", "Warm"}) => j < i

\* C27 witness: a returned list that ends with a Cold entry after a Warm
\* entry of the lowest Warm priority.
C27_Witness ==
    /\ ret.op = "get_follow_up_tasks"
    /\ Len(ret.val) = 2
    /\ ret.val[1].status = "Warm" /\ ret.val[1].priority = 90
    /\ ret.val[2].status = "Cold" /\ ret.val[2].priority = 70

\* C28: get_follow_up_tasks called right after update_lead_last_contacted(c)
\* of an existing contact c does not return c, and no list returns a
\* contact logged as contacted before the interval of its status (Hot 1,
\* Warm 3, Cold 7 days) has elapsed since.
C28_Returned(val, id) == \E i \in DOMAIN val : val[i].contact_id = id

C28_NotReturnedBeforeInterval ==
    [][ret'.op = "get_follow_up_tasks" =>
         /\ \A id \in DOMAIN Contacts' :
                (Contacts'[id].last_contacted_date.kind = "iso" /\ C28_Returned(ret'.val, id))
                    => now' - Contacts'[id].last_contacted_date.t
                           >= Days(C5_Interval(Contacts'[id].lead_status))
         /\ (/\ ret.op = "update_lead_last_contacted"
             /\ ret.val = TRUE
             /\ ret.arg \in DOMAIN Contacts)
                => ~C28_Returned(ret'.val, ret.arg)]_<<now, Contacts, ret.op, ret.arg>>

\* C28 witness: every contact was logged as contacted, and a later list
\* returns all three again.
C28_Witness ==
    /\ ret.op = "get_follow_up_tasks"
    /\ Len(ret.val) = 3
    /\ \A id \in DOMAIN Contacts : Contacts[id].last_contacted_date.kind = "iso"

\* C29: ContactProperties holds at most one 'Viewing Scheduled' link per
\* (contact, property) pair; a successful schedule_property_viewing call
\* adds one viewing task, never lowers the engagement score of its contact,
\* and, repeated for a pair that already has the link, raises that score by
\* 20, up to the cap 100.
C29_Links(cp, contact_id, property_id) ==
    {r \in cp : /\ r.contact_id = contact_id
                /\ r.property_id = property_id
                /\ r.relationship_type = "Viewing Scheduled"}

C29_ViewingTasks(tasks) == Cardinality({i \in DOMAIN tasks : tasks[i].status = "Scheduled"})

C29_RepeatedViewingAddsTaskOnly ==
    [][ret'.op = "schedule_property_viewing" =>
         LET c == ret'.arg.contact_id
             p == ret'.arg.property_id
             before == _calculate_engagement_score(c, ContactProperties, Tasks, FALSE)
             after == _calculate_engagement_score(c, ContactProperties', Tasks', FALSE)
         IN  /\ \A id \in DOMAIN Contacts, q \in DOMAIN Properties :
                    Cardinality(C29_Links(ContactProperties', id, q)) <= 1
             /\ C29_ViewingTasks(Tasks') = C29_ViewingTasks(Tasks) + 1
             /\ after >= before
             /\ C29_Links(ContactProperties, c, p) # {} => after = Min(before + 20, 100)
      ]_<<now, ContactProperties, Tasks, ret.op>>

\* C29 witness: the viewing of a pair was scheduled a second time, on a
\* later day, and the engagement score of the contact is still below the cap.
C29_Witness ==
    /\ ret.op = "schedule_property_viewing"
    /\ C29_ViewingTasks(Tasks) = 2
    /\ \E r \in C29_Links(ContactProperties, ret.arg.contact_id, ret.arg.property_id) :
           r.created_date = IsoDate(now, "") /\ now > 0
    /\ Cardinality(ContactProperties) = 1
    /\ _calculate_engagement_score(ret.arg.contact_id, ContactProperties, Tasks, FALSE) = 70

\* C30: when score_leads, get_follow_up_tasks, find_matching_buyers or
\* predict_deal_probability returns, on whichever path, the connection it
\* opened is closed.
C30_ConnectionClosedOnReturn ==
    ret.op \in C24_ScoringOperations => ret.conn = "closed"

====
